---- MODULE Spec2Model ----
(***************************************************************************)
(* Model of hardware_interface::ResourceManager<ResourceHandle,            *)
(* ClaimPolicy> (resource_manager.h): a std::map from resource name to     *)
(* handle with registerHandle, getHandle and getNames, and the two claim   *)
(* policies ClaimResources and DontClaimResources.                         *)
(***************************************************************************)
EXTENDS Integers, Sequences, FiniteSets, TLC

\* Number of distinct handle contents the callers register.
NumValues == 2

\* Resource names used by the callers, in the order of std::less<std::string>
\* (the key order of std::map); the empty string is a key like any other.
NameOrder == <<"", "wheel_left", "wheel_right">>

Names == {NameOrder[i] : i \in 1..Len(NameOrder)}

Rank(name) == CHOOSE i \in 1..Len(NameOrder) : NameOrder[i] = name

\* std::less<std::string> on the keys of ResourceMap.
Less(a, b) == Rank(a) < Rank(b)

\* The values of the ResourceHandle template parameter: a name and contents.
ResourceHandle == [name : Names, value : 1..NumValues]

getName(handle) == handle.name

ClaimPolicies == {"ClaimResources", "DontClaimResources"}

\* What the collaborator's claim(name) does when called: record the claim, or
\* raise its own error.
ClaimOutcomes == {"ok", "raise"}

VARIABLES
  ClaimPolicy,    \* the template argument of this instance
  resource_map_,  \* std::map<std::string, ResourceHandle>: pairs sorted by key
  claims_,        \* the collaborator's set of claimed resource names
  last,           \* the most recent call: arguments, result, effects in order
  latest          \* history: per name, the handle most recently registered

vars == <<ClaimPolicy, resource_map_, claims_, last, latest>>

----------------------------------------------------------------------------
\* std::map operations on the sorted sequence of (first, second) pairs.

end(m) == Len(m) + 1

\* std::map::find: the position of the key, or end().
find(m, name) ==
  IF \E i \in 1..Len(m) : m[i].first = name
  THEN CHOOSE i \in 1..Len(m) : m[i].first = name
  ELSE end(m)

make_pair(name, handle) == [first |-> name, second |-> handle]

\* std::map::insert: no effect when the key is present, otherwise the pair
\* goes to its place in key order.
insert(m, pair) ==
  IF find(m, pair.first) # end(m) THEN m
  ELSE LET k == Cardinality({i \in 1..Len(m) : Less(m[i].first, pair.first)})
       IN  SubSeq(m, 1, k) \o <<pair>> \o SubSeq(m, k + 1, Len(m))

\* it->second = handle
assign(m, it, handle) == [m EXCEPT ![it].second = handle]

----------------------------------------------------------------------------
\* Diagnostics.

\* internal::demangleSymbol(typeid(*this).name())
demangleSymbol(policy) ==
  IF policy = "ClaimResources"
  THEN "hardware_interface::ResourceManager<ResourceHandle, hardware_interface::ClaimResources>"
  ELSE "hardware_interface::ResourceManager<ResourceHandle, hardware_interface::DontClaimResources>"

\* The text streamed to ROS_WARN_STREAM, piece by piece.
ReplaceWarning(name, policy) ==
  <<"Replacing previously registered handle '", name, "' in '",
    demangleSymbol(policy), "'.">>

\* The exception thrown when the name is not found, message piece by piece.
HardwareInterfaceException(name, policy) ==
  [type |-> "HardwareInterfaceException",
   what |-> <<"Could not find resource '", name, "' in '",
              demangleSymbol(policy), "'.">>]

\* The error the collaborator raises from claim(name).
ClaimError(name) == [type |-> "ClaimError", what |-> <<name>>]

Ev(what, name) == [ev |-> what, name |-> name]

----------------------------------------------------------------------------
\* The collaborator and the claim policies.

\* HardwareInterface::claim(name): records the name as claimed, or raises.
HardwareInterface_claim(claims, name, outcome) ==
  IF outcome = "raise"
  THEN [claims |-> claims, exc |-> <<ClaimError(name)>>,
        events |-> <<Ev("claim", name), Ev("claim raised", name)>>]
  ELSE [claims |-> claims \cup {name}, exc |-> <<>>,
        events |-> <<Ev("claim", name)>>]

\* ClaimResources::claim(hw, name) {hw->claim(name);}
ClaimResources_claim(claims, name, outcome) ==
  HardwareInterface_claim(claims, name, outcome)

DontClaimResources_claim_callsClaim(claims, name, outcome) ==
  HardwareInterface_claim(claims, name, outcome)

\* DontClaimResources::claim(hw, name) {}
DontClaimResources_claim(claims, name, outcome) ==
  [claims |-> claims, exc |-> <<>>, events |-> <<>>]

\* ClaimPolicy::claim(this, name)
ClaimPolicy_claim(policy, claims, name, outcome) ==
  IF policy = "ClaimResources"
  THEN ClaimResources_claim(claims, name, outcome)
  ELSE DontClaimResources_claim(claims, name, outcome)

----------------------------------------------------------------------------
\* The operations of ResourceManager.

getNames_skipLast(m) == [i \in 1..(Len(m) - 1) |-> m[i].first]

\* getNames(): push_back of it->first from begin() to end().
getNames(m) == [i \in 1..Len(m) |-> m[i].first]

registerHandle_keepOld(m, handle, policy) ==
  LET it == find(m, getName(handle)) IN
  IF it = end(m)
  THEN [map |-> insert(m, make_pair(getName(handle), handle)), warn |-> <<>>,
        exc |-> <<>>, events |-> <<>>]
  ELSE [map |-> m, warn |-> <<ReplaceWarning(getName(handle), policy)>>,
        exc |-> <<>>, events |-> <<>>]

registerHandle_append(m, handle, policy) ==
  LET it == find(m, getName(handle)) IN
  [map |-> Append(m, make_pair(getName(handle), handle)),
   warn |-> IF it = end(m) THEN <<>>
            ELSE <<ReplaceWarning(getName(handle), policy)>>,
   exc |-> <<>>, events |-> <<>>]

registerHandle_erase(m, handle, policy) ==
  LET it == find(m, getName(handle)) IN
  IF it = end(m)
  THEN [map |-> insert(m, make_pair(getName(handle), handle)), warn |-> <<>>,
        exc |-> <<>>, events |-> <<>>]
  ELSE [map |-> SubSeq(m, 1, it - 1) \o SubSeq(m, it + 1, Len(m)),
        warn |-> <<ReplaceWarning(getName(handle), policy)>>,
        exc |-> <<>>, events |-> <<>>]

registerHandle_warnAlways(m, handle, policy) ==
  LET it == find(m, getName(handle)) IN
  [map |-> IF it = end(m) THEN insert(m, make_pair(getName(handle), handle))
           ELSE assign(m, it, handle),
   warn |-> <<ReplaceWarning(getName(handle), policy)>>,
   exc |-> <<>>, events |-> <<>>]

\* registerHandle(handle): the map afterwards, the warnings emitted, the
\* exceptions thrown and the collaborator calls made.
registerHandle(m, handle, policy) ==
  LET it == find(m, getName(handle)) IN
  IF it = end(m)
  THEN [map |-> insert(m, make_pair(getName(handle), handle)), warn |-> <<>>,
        exc |-> <<>>, events |-> <<>>]
  ELSE [map |-> assign(m, it, handle),
        warn |-> <<ReplaceWarning(getName(handle), policy)>>,
        exc |-> <<>>, events |-> <<>>]

getHandle_wrongName(m, name, policy, claims, outcome) ==
  LET it == find(m, name) IN
  IF it = end(m)
  THEN [ret |-> <<>>,
        exc |-> <<HardwareInterfaceException(
                    IF Len(m) > 0 THEN m[1].first ELSE name, policy)>>,
        map |-> m, claims |-> claims,
        events |-> <<Ev("find", name), Ev("throw", name)>>]
  ELSE LET c == ClaimPolicy_claim(policy, claims, name, outcome) IN
       IF c.exc # <<>>
       THEN [ret |-> <<>>, exc |-> c.exc, map |-> m, claims |-> c.claims,
             events |-> <<Ev("find", name)>> \o c.events \o <<Ev("throw", name)>>]
       ELSE [ret |-> <<m[it].second>>, exc |-> <<>>, map |-> m,
             claims |-> c.claims,
             events |-> <<Ev("find", name)>> \o c.events \o <<Ev("return", name)>>]

getHandle_claimFirst(m, name, policy, claims, outcome) ==
  LET it == find(m, name)
      c  == ClaimPolicy_claim(policy, claims, name, outcome) IN
  IF c.exc # <<>>
  THEN [ret |-> <<>>, exc |-> c.exc, map |-> m, claims |-> c.claims,
        events |-> c.events \o <<Ev("throw", name)>>]
  ELSE IF it = end(m)
  THEN [ret |-> <<>>, exc |-> <<HardwareInterfaceException(name, policy)>>,
        map |-> m, claims |-> c.claims,
        events |-> c.events \o <<Ev("find", name), Ev("throw", name)>>]
  ELSE [ret |-> <<m[it].second>>, exc |-> <<>>, map |-> m,
        claims |-> c.claims,
        events |-> c.events \o <<Ev("find", name), Ev("return", name)>>]

getHandle_swallow(m, name, policy, claims, outcome) ==
  LET it == find(m, name) IN
  IF it = end(m)
  THEN [ret |-> <<>>, exc |-> <<HardwareInterfaceException(name, policy)>>,
        map |-> m, claims |-> claims,
        events |-> <<Ev("find", name), Ev("throw", name)>>]
  ELSE LET c == ClaimPolicy_claim(policy, claims, name, outcome) IN
       [ret |-> <<m[it].second>>, exc |-> <<>>, map |-> m,
        claims |-> c.claims,
        events |-> <<Ev("find", name)>> \o c.events \o <<Ev("return", name)>>]

getHandle_subscript(m, name, policy, claims, outcome) ==
  LET m2 == insert(m, make_pair(name, [name |-> name, value |-> 1]))
      it == find(m2, name)
      c  == ClaimPolicy_claim(policy, claims, name, outcome) IN
  IF c.exc # <<>>
  THEN [ret |-> <<>>, exc |-> c.exc, map |-> m2, claims |-> c.claims,
        events |-> <<Ev("find", name)>> \o c.events \o <<Ev("throw", name)>>]
  ELSE [ret |-> <<m2[it].second>>, exc |-> <<>>, map |-> m2,
        claims |-> c.claims,
        events |-> <<Ev("find", name)>> \o c.events \o <<Ev("return", name)>>]

\* getHandle(name): the handle returned or the exception thrown, the map and
\* the collaborator's claims afterwards, and the steps taken in order.
getHandle(m, name, policy, claims, outcome) ==
  LET it == find(m, name) IN
  IF it = end(m)
  THEN [ret |-> <<>>, exc |-> <<HardwareInterfaceException(name, policy)>>,
        map |-> m, claims |-> claims,
        events |-> <<Ev("find", name), Ev("throw", name)>>]
  ELSE LET c == ClaimPolicy_claim(policy, claims, name, outcome) IN
       IF c.exc # <<>>
       THEN [ret |-> <<>>, exc |-> c.exc, map |-> m, claims |-> c.claims,
             events |-> <<Ev("find", name)>> \o c.events \o <<Ev("throw", name)>>]
       ELSE [ret |-> <<m[it].second>>, exc |-> <<>>, map |-> m,
             claims |-> c.claims,
             events |-> <<Ev("find", name)>> \o c.events \o <<Ev("return", name)>>]

----------------------------------------------------------------------------
NoCall ==
  [op |-> "none", arg_handle |-> <<>>, arg_name |-> <<>>, ret_handle |-> <<>>,
   ret_names |-> <<>>, exc |-> <<>>, warn |-> <<>>, events |-> <<>>]

Init ==
  /\ ClaimPolicy \in ClaimPolicies
  /\ resource_map_ = <<>>
  /\ claims_ = {}
  /\ last = NoCall
  /\ latest = [n \in Names |-> <<>>]

RegisterHandle ==
  \E handle \in ResourceHandle :
    LET r == registerHandle(resource_map_, handle, ClaimPolicy) IN
    /\ resource_map_' = r.map
    /\ last' = [NoCall EXCEPT !.op = "registerHandle",
                              !.arg_handle = <<handle>>,
                              !.exc = r.exc, !.warn = r.warn,
                              !.events = r.events]
    /\ latest' = [latest EXCEPT ![getName(handle)] = <<handle>>]
    /\ UNCHANGED <<ClaimPolicy, claims_>>

GetNames ==
  /\ last' = [NoCall EXCEPT !.op = "getNames",
                            !.ret_names = getNames(resource_map_)]
  /\ UNCHANGED <<ClaimPolicy, resource_map_, claims_, latest>>

GetHandle ==
  \E name \in Names, outcome \in ClaimOutcomes :
    LET r == getHandle(resource_map_, name, ClaimPolicy, claims_, outcome) IN
    /\ resource_map_' = r.map
    /\ claims_' = r.claims
    /\ last' = [NoCall EXCEPT !.op = "getHandle", !.arg_name = <<name>>,
                              !.ret_handle = r.ret, !.exc = r.exc,
                              !.events = r.events]
    /\ UNCHANGED <<ClaimPolicy, latest>>

Next == RegisterHandle \/ GetNames \/ GetHandle

Spec == Init /\ [][Next]_vars

----------------------------------------------------------------------------
\* Helpers of the properties.

\* The handle stored under a name, if any.
stored(m, name) ==
  IF find(m, name) = end(m) THEN <<>> ELSE <<m[find(m, name)].second>>

ClaimEvents(events) == {i \in 1..Len(events) : events[i].ev = "claim"}

RaiseEvents(events) == {i \in 1..Len(events) : events[i].ev = "claim raised"}

Registered == {n \in Names : latest[n] # <<>>}

Range(s) == {s[i] : i \in 1..Len(s)}

----------------------------------------------------------------------------
\* C1 (as stated): getHandle(n) on a registered name n returns the handle
\* passed to the most recent registerHandle whose name is n.
C1_GetHandleAlwaysReturnsLatest ==
  (last.op = "getHandle" /\ last.arg_name[1] \in Registered)
    => last.ret_handle = latest[last.arg_name[1]]

\* C1 (amended): getHandle(n) on a registered name n returns the handle passed
\* to the most recent registerHandle whose name is n, whatever was registered
\* under other names in between, unless the policy is ClaimResources and the
\* collaborator's claim(n) raises; then no handle is returned and the error
\* is the collaborator's.
C1_GetHandleReturnsLatestUnlessClaimRaises ==
  /\ \A n \in Registered : stored(resource_map_, n) = latest[n]
  /\ (last.op = "getHandle" /\ last.arg_name[1] \in Registered) =>
       IF RaiseEvents(last.events) = {}
       THEN /\ last.ret_handle = latest[last.arg_name[1]]
            /\ last.exc = <<>>
       ELSE /\ ClaimPolicy = "ClaimResources"
            /\ last.ret_handle = <<>>
            /\ last.exc = <<ClaimError(last.arg_name[1])>>

C1_Witness ==
  /\ last.op = "getHandle"
  /\ last.ret_handle # <<>>
  /\ Cardinality(Registered) = Len(NameOrder)
  /\ last.ret_handle[1].value = NumValues

\* C2: a registerHandle call on a name already present leaves exactly one
\* entry for that name, holding the handle of this call, and the length of
\* getNames() is the same before and after the call.
C2_OverwriteKeepsOneEntry ==
  [][\A h \in ResourceHandle :
       (/\ last'.op = "registerHandle"
        /\ last'.arg_handle = <<h>>
        /\ find(resource_map_, h.name) # end(resource_map_))
       => /\ Len(getNames(resource_map_')) = Len(getNames(resource_map_))
          /\ Cardinality({i \in 1..Len(resource_map_') :
                            resource_map_'[i].first = h.name}) = 1
          /\ stored(resource_map_', h.name) = <<h>>]_vars

C2_Witness ==
  /\ last.op = "registerHandle"
  /\ last.warn # <<>>
  /\ stored(resource_map_, last.arg_handle[1].name) = last.arg_handle
  /\ Len(resource_map_) = 2

\* C3: getHandle(name) for a name never registered returns no handle and
\* throws the not-found exception whose message carries the requested name,
\* in every reachable registry state, the empty registry included.
C3_UnregisteredNameNotFound ==
  /\ \A n \in Names \ Registered, p \in ClaimOutcomes :
       LET r == getHandle(resource_map_, n, ClaimPolicy, claims_, p) IN
       /\ r.ret = <<>>
       /\ Len(r.exc) = 1
       /\ r.exc[1].type = "HardwareInterfaceException"
       /\ r.exc[1].what[2] = n
  /\ (last.op = "getHandle" /\ last.arg_name[1] \notin Registered) =>
       /\ last.ret_handle = <<>>
       /\ Len(last.exc) = 1
       /\ last.exc[1].type = "HardwareInterfaceException"
       /\ last.exc[1].what[2] = last.arg_name[1]

C3_Witness ==
  /\ last.op = "getHandle"
  /\ last.arg_name[1] \notin Registered
  /\ Registered # {}
  /\ last.exc # <<>>

\* C4: getNames() returns a sequence without duplicates whose elements are
\* exactly the names registered so far, as many as there are distinct
\* registered names.
C4_GetNamesIsTheRegisteredSet ==
  /\ LET ns == getNames(resource_map_) IN
       /\ \A i, j \in 1..Len(ns) : ns[i] = ns[j] => i = j
       /\ Range(ns) = Registered
       /\ Len(ns) = Cardinality(Registered)
  /\ last.op = "getNames" =>
       /\ \A i, j \in 1..Len(last.ret_names) :
            last.ret_names[i] = last.ret_names[j] => i = j
       /\ Range(last.ret_names) = Registered
       /\ Len(last.ret_names) = Cardinality(Registered)

C4_Witness ==
  /\ last.op = "getNames"
  /\ Len(last.ret_names) = 2

\* C5: under ClaimResources a getHandle(name) call on a present name calls the
\* collaborator's claim once, with that name, after the lookup found the
\* name and before the handle is returned; on an absent name it calls claim
\* zero times.
C5_ClaimOncePerSuccessfulLookup ==
  (ClaimPolicy = "ClaimResources" /\ last.op = "getHandle") =>
    LET n  == last.arg_name[1]
        ev == last.events
    IN  IF n \in Registered
        THEN /\ Cardinality(ClaimEvents(ev)) = 1
             /\ \A i \in ClaimEvents(ev) :
                  /\ ev[i].name = n
                  /\ \E j \in 1..(i - 1) : ev[j] = Ev("find", n)
                  /\ \A k \in 1..Len(ev) : ev[k].ev = "return" => i < k
             /\ last.ret_handle # <<>> => \E k \in 1..Len(ev) : ev[k].ev = "return"
        ELSE ClaimEvents(ev) = {}

C5_Witness ==
  /\ ClaimPolicy = "ClaimResources"
  /\ last.op = "getHandle"
  /\ last.ret_handle # <<>>
  /\ last.arg_name[1] \in claims_
  /\ Cardinality(claims_) = 1

\* C6: under DontClaimResources no call ever invokes the collaborator's claim,
\* and the collaborator's set of claimed resources stays as it was.
C6_DontClaimNeverClaims ==
  [][ClaimPolicy = "DontClaimResources" =>
       /\ claims_' = claims_
       /\ ClaimEvents(last'.events) = {}]_vars

C6_Witness ==
  /\ ClaimPolicy = "DontClaimResources"
  /\ last.op = "getHandle"
  /\ last.ret_handle # <<>>
  /\ claims_ = {}

\* C7: under ClaimResources, when the collaborator's claim(name) raises during
\* getHandle(name) on a present name, getHandle fails with that same error,
\* returns no handle, calls claim once only, and leaves the map unchanged.
C7_ClaimErrorPropagates ==
  [][(/\ ClaimPolicy = "ClaimResources"
      /\ last'.op = "getHandle"
      /\ RaiseEvents(last'.events) # {})
     => /\ last'.exc = <<ClaimError(last'.arg_name[1])>>
        /\ last'.ret_handle = <<>>
        /\ Cardinality(ClaimEvents(last'.events)) = 1
        /\ resource_map_' = resource_map_]_vars

C7_Witness ==
  /\ ClaimPolicy = "ClaimResources"
  /\ last.op = "getHandle"
  /\ RaiseEvents(last.events) # {}
  /\ last.arg_name[1] \in Registered
  /\ last.exc # <<>>

\* C8: no entry is ever removed: a name present before a call is in
\* getNames() after it, and getHandle on it does not fail with the not-found
\* exception.
C8_EntriesAreNeverRemoved ==
  [][\A n \in Names :
       find(resource_map_, n) # end(resource_map_) =>
         /\ n \in Range(getNames(resource_map_'))
         /\ \A p \in ClaimOutcomes :
              LET r == getHandle(resource_map_', n, ClaimPolicy, claims_', p) IN
              \A i \in 1..Len(r.exc) :
                r.exc[i].type # "HardwareInterfaceException"]_vars

C8_Witness ==
  /\ last.op = "getHandle"
  /\ last.exc # <<>>
  /\ Len(getNames(resource_map_)) = Len(NameOrder)
  /\ Registered = Names

\* C9: registerHandle never raises, for any handle, the empty name included;
\* it emits a warning, naming the resource, exactly when an entry for the
\* handle's name existed before the call.
C9_RegisterSucceedsWarnsIffPresent ==
  [][\A h \in ResourceHandle :
       (last'.op = "registerHandle" /\ last'.arg_handle = <<h>>) =>
         /\ last'.exc = <<>>
         /\ stored(resource_map_', h.name) = <<h>>
         /\ (last'.warn # <<>>) <=>
              (find(resource_map_, h.name) # end(resource_map_))
         /\ \A i \in 1..Len(last'.warn) : last'.warn[i][2] = h.name
         /\ Len(last'.warn) <= 1]_vars

C9_Witness ==
  /\ last.op = "registerHandle"
  /\ last.arg_handle[1].name = ""
  /\ last.warn = <<>>
  /\ stored(resource_map_, "") = last.arg_handle

\* C10: getNames() and getHandle(name) leave the map unchanged, whether
\* getHandle succeeds or fails and under either policy; registerHandle(h)
\* leaves the entry of every name other than h.name unchanged and does not
\* invoke the collaborator's claim.
C10_Frame ==
  [][/\ last'.op \in {"getNames", "getHandle"} =>
          resource_map_' = resource_map_
     /\ \A h \in ResourceHandle :
          (last'.op = "registerHandle" /\ last'.arg_handle = <<h>>) =>
            /\ \A n \in Names \ {h.name} :
                 stored(resource_map_', n) = stored(resource_map_, n)
            /\ ClaimEvents(last'.events) = {}
            /\ claims_' = claims_]_vars

C10_Witness ==
  /\ last.op = "getHandle"
  /\ last.exc # <<>>
  /\ last.exc[1].type = "HardwareInterfaceException"
  /\ Len(resource_map_) = 1

====
